---- MODULE Spec2Model ----
(***************************************************************************)
(* Motivasjonsark master app (server.js): the submit / list / export /     *)
(* forward request handlers over the SQLite table "responses", the admin   *)
(* guard and the optional mail transport.                                  *)
(*                                                                         *)
(* JavaScript strings are sequences of one-character strings.  JavaScript  *)
(* values are records tagged by t: undefined, null, string, number, an     *)
(* object whose entries are an ordered sequence of <<key, value>> pairs of *)
(* strings, and an array of strings.                                       *)
(***************************************************************************)
EXTENDS Integers, Sequences, FiniteSets, TLC

\* ------------------------------------------------------------------ bounds
\* Request slots: how many requests are in flight at once.
MaxInFlight == 2
\* How many requests come in during one behaviour: of interleaved requests,
\* of interleaved requests under fairness, and of requests made one at a time.
MaxRequests == 3
MaxFairRequests == 2
MaxSeqRequests == 3

\* ------------------------------------------------------------- JS values
Undef == [t |-> "undef"]
Null == [t |-> "null"]
Str(s) == [t |-> "str", s |-> s]
Obj(kv) == [t |-> "obj", kv |-> kv]
Arr(xs) == [t |-> "arr", xs |-> xs]
Num(n) == [t |-> "num", nan |-> FALSE, n |-> n]
NaN == [t |-> "num", nan |-> TRUE, n |-> 0]

\* The strings, and the values: what the functions below are defined over.
Chars == Seq(STRING)
Value ==
  [t : {"undef", "null"}] \cup [t : {"str"}, s : Chars]
    \cup [t : {"obj"}, kv : Seq(Seq(Chars))] \cup [t : {"arr"}, xs : Seq(Chars)]
    \cup [t : {"num"}, nan : BOOLEAN, n : Int]

\* The characters with a meaning to JSON, CSV, LIKE and parseInt.
DQ == "\""
BS == "\\"
NL == "\n"
COMMA == ","

\* JavaScript truthiness (the conditions `!x`, `x ? a : b`, `x || y`).
Truthy(v) ==
  CASE v.t = "undef" -> FALSE
    [] v.t = "null" -> FALSE
    [] v.t = "str" -> v.s # <<>>
    [] v.t = "num" -> ~v.nan /\ v.n # 0
    [] OTHER -> TRUE

\* a || b
Or(a, b) == IF Truthy(a) THEN a ELSE b

\* The concatenation of a sequence of strings.
Flatten[ss \in Seq(Chars)] == IF ss = <<>> THEN <<>> ELSE Head(ss) \o Flatten[Tail(ss)]

\* Array.prototype.join
Join[ss \in Seq(Chars), sep \in Chars] ==
  IF ss = <<>> THEN <<>>
  ELSE IF Len(ss) = 1 THEN ss[1]
  ELSE ss[1] \o sep \o Join[Tail(ss), sep]

DigitChars == <<"0", "1", "2", "3", "4", "5", "6", "7", "8", "9">>

RECURSIVE Digits(_)
\* The decimal text of a natural number (a number in a template or a join).
Digits(n) ==
  IF n < 10 THEN <<DigitChars[n + 1]>>
  ELSE Digits(n \div 10) \o <<DigitChars[(n % 10) + 1]>>

\* String(v)
String(v) ==
  CASE v.t = "str" -> v.s
    [] v.t = "undef" -> <<"u", "n", "d", "e", "f", "i", "n", "e", "d">>
    [] v.t = "null" -> <<"n", "u", "l", "l">>
    [] v.t = "num" -> IF v.nan THEN <<"N", "a", "N">> ELSE Digits(v.n)
    [] v.t = "arr" -> Join[v.xs, <<COMMA>>]
    [] OTHER -> <<"[", "o", "b", "j", "e", "c", "t", " ",
                  "O", "b", "j", "e", "c", "t", "]">>

\* ------------------------------------------------------------------ JSON
\* One character of a string as JSON.stringify writes it.
JsonEscape(c) ==
  CASE c = DQ -> <<BS, DQ>>
    [] c = BS -> <<BS, BS>>
    [] c = NL -> <<BS, "n">>
    [] OTHER -> <<c>>

\* JSON.stringify of a string: quoted, with ", \ and the newline escaped.
JsonQuote[s \in Chars] ==
  <<DQ>> \o Flatten[[i \in 1..Len(s) |-> JsonEscape(s[i])]] \o <<DQ>>

\* JSON.stringify
JSONstringify[v \in Value] ==
  CASE v.t = "str" -> JsonQuote[v.s]
    [] v.t = "null" -> <<"n", "u", "l", "l">>
    [] v.t = "num" -> IF v.nan THEN <<"n", "u", "l", "l">> ELSE Digits(v.n)
    [] v.t = "arr" ->
         <<"[">> \o Join[[i \in 1..Len(v.xs) |-> JsonQuote[v.xs[i]]], <<COMMA>>]
                 \o <<"]">>
    [] v.t = "obj" ->
         <<"{">> \o Join[[i \in 1..Len(v.kv) |->
                           JsonQuote[v.kv[i][1]] \o <<":">> \o JsonQuote[v.kv[i][2]]],
                         <<COMMA>>]
                 \o <<"}">>
    [] OTHER -> <<>>

\* Reads a JSON string's characters from position i (after the opening quote)
\* to its closing quote: [s |-> the string, next |-> the position after it].
ParseStringBody[text \in Chars, i \in Nat, acc \in Chars] ==
  IF i > Len(text) THEN [s |-> acc, next |-> i]
  ELSE IF text[i] = DQ THEN [s |-> acc, next |-> i + 1]
  ELSE IF text[i] = BS /\ i < Len(text)
    THEN ParseStringBody[text, i + 2,
                         Append(acc, IF text[i + 1] = "n" THEN NL ELSE text[i + 1])]
  ELSE ParseStringBody[text, i + 1, Append(acc, text[i])]

\* Reads the strings of an array or object body from position i up to the
\* closing bracket `close`, skipping the separators , and :.
ParseStrings[text \in Chars, i \in Nat, close \in STRING, acc \in Seq(Chars)] ==
  IF i > Len(text) \/ text[i] = close THEN acc
  ELSE IF text[i] = DQ
    THEN LET r == ParseStringBody[text, i + 1, <<>>]
         IN ParseStrings[text, r.next, close, Append(acc, r.s)]
  ELSE ParseStrings[text, i + 1, close, acc]

\* JSON.parse of a text JSON.stringify wrote.
JSONparse[text \in Chars] ==
  IF text = <<>> THEN Undef
  ELSE IF text[1] = DQ THEN Str(ParseStringBody[text, 2, <<>>].s)
  ELSE IF text[1] = "[" THEN Arr(ParseStrings[text, 2, "]", <<>>])
  ELSE IF text[1] = "{"
    THEN LET ss == ParseStrings[text, 2, "}", <<>>]
         IN Obj([i \in 1..(Len(ss) \div 2) |-> <<ss[2 * i - 1], ss[2 * i]>>])
  ELSE Null

\* Object.entries
ObjectEntries[v \in Value] ==
  CASE v.t = "obj" -> v.kv
    [] v.t = "arr" -> [i \in 1..Len(v.xs) |-> <<Digits(i - 1), v.xs[i]>>]
    [] v.t = "str" -> [i \in 1..Len(v.s) |-> <<Digits(i - 1), <<v.s[i]>> >>]
    [] OTHER -> <<>>

\* ------------------------------------------------------------ environment
UpperChars == <<"A", "B", "C", "D", "E", "F", "G", "H", "I", "J", "K", "L", "M",
                "N", "O", "P", "Q", "R", "S", "T", "U", "V", "W", "X", "Y", "Z">>
LowerChars == <<"a", "b", "c", "d", "e", "f", "g", "h", "i", "j", "k", "l", "m",
                "n", "o", "p", "q", "r", "s", "t", "u", "v", "w", "x", "y", "z">>

\* One character lower-cased (ASCII).
LowerChar(c) ==
  IF \E i \in 1..26 : UpperChars[i] = c
    THEN LowerChars[CHOOSE i \in 1..26 : UpperChars[i] = c]
    ELSE c

\* String.prototype.toLowerCase
toLowerCase(s) == [i \in 1..Len(s) |-> LowerChar(s[i])]

\* The value of a decimal digit character, -1 for any other character.
DigitVal(c) ==
  IF \E i \in 1..10 : DigitChars[i] = c
    THEN (CHOOSE i \in 1..10 : DigitChars[i] = c) - 1
    ELSE -1

RECURSIVE ParseDigits(_, _, _)
\* The value of the longest run of digits of s from position i on, -1 if none.
ParseDigits(s, i, acc) ==
  IF i > Len(s) \/ DigitVal(s[i]) < 0 THEN acc
  ELSE ParseDigits(s, i + 1, (IF acc < 0 THEN 0 ELSE acc * 10) + DigitVal(s[i]))

RECURSIVE SkipSpace(_)
\* s without its leading white space.
SkipSpace(s) ==
  IF s # <<>> /\ Head(s) \in {" ", NL} THEN SkipSpace(Tail(s)) ELSE s

\* parseInt(v, 10): v as a string, leading white space skipped, an optional
\* sign, then the longest run of digits; NaN when there is none.
parseInt(v) ==
  LET s == SkipSpace(String(v))
      neg == s # <<>> /\ Head(s) = "-"
      body == IF s # <<>> /\ Head(s) \in {"-", "+"} THEN Tail(s) ELSE s
      n == ParseDigits(body, 1, -1)
  IN IF n < 0 THEN NaN ELSE Num(IF neg THEN 0 - n ELSE n)

\* envOr: the variable's value unless it is undefined or empty.
envOr(e, key, fallback) ==
  IF e[key].t # "undef" /\ e[key] # Str(<<>>) THEN e[key] ELSE fallback

\* toBool
toBool(v, fallback) ==
  CASE v.t = "bool" -> v.b
    [] v.t = "str" -> toLowerCase(v.s) \in
         {<<"1">>, <<"t", "r", "u", "e">>, <<"y", "e", "s">>, <<"o", "n">>}
    [] OTHER -> fallback

\* toInt: parseInt(v, 10) when it is finite, else the fallback.
toInt(v, fallback) ==
  LET n == parseInt(v) IN IF ~n.nan THEN n ELSE fallback

\* The default of ADMIN_TOKEN.
changeme == <<"c", "h", "a", "n", "g", "e", "m", "e">>

\* const ADMIN_TOKEN
ADMIN_TOKEN(e) == envOr(e, "ADMIN_TOKEN", Str(changeme))

\* ------------------------------------------------------------ admin guard
\* The token requireAdmin reads: the header, or else the query parameter.
AdminToken(r) == Or(r.hdr, r.tok)

\* Mutant: the guard admits a token that is there, whatever it is.
requireAdminAnyToken(e, r) == Truthy(AdminToken(r))

\* requireAdmin lets the request through (calls next()).
requireAdmin(e, r) ==
  Truthy(AdminToken(r)) /\ AdminToken(r) = ADMIN_TOKEN(e)

\* --------------------------------------------------------- mail transport
\* Mutant: the check of the password is left out.
transporterOrNullNoPass(e) ==
  LET host == envOr(e, "SMTP_HOST", Str(<<>>))
      port == toInt(envOr(e, "SMTP_PORT", Str(<<>>)), NaN)
      user == envOr(e, "SMTP_USER", Str(<<>>))
  IN IF ~Truthy(host) \/ ~Truthy(port) \/ ~Truthy(user)
       THEN Null
       ELSE [t |-> "transport", host |-> host, port |-> port, secure |-> FALSE,
             user |-> user, pass |-> Undef]

\* transporterOrNull: the transport's options, or Null when host, port, user
\* or pass is falsy.
transporterOrNull(e) ==
  LET host == envOr(e, "SMTP_HOST", Str(<<>>))
      port == toInt(envOr(e, "SMTP_PORT", Str(<<>>)), NaN)
      user == envOr(e, "SMTP_USER", Str(<<>>))
      pass == envOr(e, "SMTP_PASS", Str(<<>>))
  IN IF ~Truthy(host) \/ ~Truthy(port) \/ ~Truthy(user) \/ ~Truthy(pass)
       THEN Null
       ELSE [t |-> "transport", host |-> host, port |-> port,
             secure |-> toBool(envOr(e, "SMTP_SECURE",
                                     Str(<<"f", "a", "l", "s", "e">>)), FALSE),
             user |-> user, pass |-> pass]

\* ---------------------------------------------------------------- SQLite
\* Mutant: the key is the largest id so far, not one more.
InsertRowOffByOne(seqno, p) ==
  [id |-> seqno, created_at |-> p[1], source |-> p[2], metadata |-> p[3],
   answers_json |-> p[4], email |-> p[5], ip |-> p[6]]

\* The row INSERT INTO responses (...) VALUES (?,?,?,?,?,?) writes, its id the
\* AUTOINCREMENT key: one more than the largest id the table ever held.
InsertRow(seqno, p) ==
  [id |-> seqno + 1, created_at |-> p[1], source |-> p[2], metadata |-> p[3],
   answers_json |-> p[4], email |-> p[5], ip |-> p[6]]

\* Mutant: the INSERT replaces what the table held.
DbInsertReplace(table, seqno, p) == <<InsertRow(seqno, p)>>

\* The table after the INSERT.
DbInsert(table, seqno, p) == Append(table, InsertRow(seqno, p))

RECURSIVE OrderByIdDesc(_)
\* ORDER BY id DESC over a set of rows.
OrderByIdDesc(rs) ==
  IF rs = {} THEN <<>>
  ELSE LET top == CHOOSE r \in rs : \A o \in rs : o.id <= r.id
       IN <<top>> \o OrderByIdDesc(rs \ {top})

\* The rows of a table as a set.
RowSet(table) == {table[i] : i \in 1..Len(table)}

RECURSIVE Like(_, _)
\* SQLite's LIKE of a text against a pattern: % matches any run of
\* characters, _ any one character, and any other character matches itself
\* without regard to ASCII case.
Like(p, text) ==
  IF p = <<>> THEN text = <<>>
  ELSE IF Head(p) = "%"
    THEN Like(Tail(p), text) \/ (text # <<>> /\ Like(p, Tail(text)))
  ELSE IF text = <<>> THEN FALSE
  ELSE (Head(p) = "_" \/ LowerChar(Head(p)) = LowerChar(Head(text)))
       /\ Like(Tail(p), Tail(text))

\* Mutant: only answers_json is searched.
WhereLikeAnswersOnly(row, q) == Like(<<"%">> \o q \o <<"%">>, row.answers_json)

\* WHERE answers_json LIKE ? OR metadata LIKE ?, both arguments `%${q}%`.
WhereLike(row, q) ==
  LET arg == <<"%">> \o q \o <<"%">>
  IN Like(arg, row.answers_json) \/ Like(arg, row.metadata)

\* The rows db.all hands GET /api/responses.
SelectResponses(table, q) ==
  IF Truthy(q)
    THEN OrderByIdDesc({r \in RowSet(table) : WhereLike(r, String(q))})
    ELSE OrderByIdDesc(RowSet(table))

\* SELECT * FROM responses WHERE id = ?: the rows with that id.
SelectById(table, id) ==
  {r \in RowSet(table) : ~id.nan /\ r.id = id.n}

\* ------------------------------------------------------------- responses
NoResp == [status |-> 0]
\* res.status(n).json({ok: false, error})
JsonError(n, msg) == [status |-> n, type |-> "json", ok |-> FALSE, error |-> msg]
\* res.json({ok: true, id})
JsonId(id) == [status |-> 200, type |-> "json", ok |-> TRUE, id |-> id]
\* res.json({ok: true, items})
JsonItems(items) == [status |-> 200, type |-> "json", ok |-> TRUE, items |-> items]
\* res.json({ok: true, messageId})
JsonMessageId(m) == [status |-> 200, type |-> "json", ok |-> TRUE, messageId |-> m]
\* res.status(n).send(text) / res.send(text) with the CSV headers set
Text(n, type, text) == [status |-> n, type |-> type, text |-> text]

\* ------------------------------------------------------------ POST /submit
\* new Date().toISOString() at the clock's n-th reading.
toISOString(n) == Digits(n) \o <<"Z">>

\* The six values stmt.run binds.
SubmitParams(r, createdAt) ==
  << createdAt,
     IF Truthy(r.source) THEN String(r.source) ELSE <<"w", "e", "b">>,
     IF Truthy(r.metadata) THEN String(r.metadata) ELSE <<>>,
     JSONstringify[r.answers],
     IF Truthy(r.email) THEN String(r.email) ELSE <<>>,
     String(Or(r.ip, Str(<<>>))) >>

\* if (!answers) return res.status(400)...
MissingAnswers(r) == ~Truthy(r.answers)

\* The callback of stmt.run.
SubmitReply(err, lastID) ==
  IF err THEN JsonError(500, "DB insert failed") ELSE JsonId(lastID)

\* ------------------------------------------------------ GET /api/export.csv
\* One row of the export.
CsvRow(r) ==
  LET answers == JSONstringify[JSONparse[r.answers_json]]
  IN Join[<< Digits(r.id),
             r.created_at,
             JsonQuote[r.source],
             JsonQuote[r.metadata],
             JsonQuote[r.email],
             JsonQuote[r.ip],
             JsonQuote[answers] >>, <<COMMA>>]

CsvHeader ==
  << <<"i", "d">>, <<"c", "r", "e", "a", "t", "e", "d", "_", "a", "t">>,
     <<"s", "o", "u", "r", "c", "e">>, <<"m", "e", "t", "a", "d", "a", "t", "a">>,
     <<"e", "m", "a", "i", "l">>, <<"i", "p">>,
     <<"a", "n", "s", "w", "e", "r", "s">> >>

\* The document the export sends: the header and one line per row.
ExportCsv(rs) ==
  Join[<<Join[CsvHeader, <<COMMA>>]>> \o [i \in 1..Len(rs) |-> CsvRow(rs[i])], <<NL>>]

\* --------------------------------------- POST /api/responses/:id/forward
\* .replace(/\n/g, '<br/>')
ReplaceNewlines[s \in Chars] ==
  IF s = <<>> THEN <<>>
  ELSE (IF Head(s) = NL THEN <<"<", "b", "r", "/", ">">> ELSE <<Head(s)>>)
       \o ReplaceNewlines[Tail(s)]

\* Object.entries(answers).map(...): each key with its value, the value's
\* newlines replaced.
Pretty[entries \in Seq(Seq(Chars))] ==
  [i \in 1..Len(entries) |-> <<entries[i][1], ReplaceNewlines[entries[i][2]]>>]

\* The message handed to sendMail.  The fixed text of the template and of the
\* subject is left out: html keeps what is embedded in it.
MailMessage(e, row, to) ==
  [from |-> envOr(e, "FROM_EMAIL", envOr(e, "SMTP_USER", Str(<<>>))),
   to |-> to,
   subject |-> Digits(row.id),
   html |-> [id |-> Digits(row.id),
             metadata |-> row.metadata,
             pretty |-> Pretty[ObjectEntries[JSONparse[row.answers_json]]]]]

\* Mutant: the error of db.get is not looked at.
NotFoundNoErr(err, hits) == hits = {}

\* if (err || !row) return res.status(404)...
NotFound(err, hits) == err \/ hits = {}

\* The reply after sendMail settles: its messageId, or the error's message.
MailReply(outcome) ==
  IF outcome.ok THEN JsonMessageId(outcome.messageId)
  ELSE JsonError(500, outcome.message)

\* ------------------------------------------------------------------ state
VARIABLES
  env,       \* process.env
  rows,      \* the table responses, in insertion order
  seqno,     \* the largest id the table ever held (sqlite_sequence)
  clock,     \* how many times the clock was read
  slot,      \* the requests in flight: each slot's request, place and reply
  returned,  \* history: the successful submits, in the order of their replies
  arrivals   \* history: how many requests have come in

vars == <<env, rows, seqno, clock, slot, returned, arrivals>>

Slots == 1..MaxInFlight

NoReq == [kind |-> "none"]

\* A slot with no request.  pc is the request's place: idle, run (stmt.run
\* pending), ran (its callback pending), all (db.all pending), get (db.get
\* pending), mail (sendMail pending), done (the reply is sent).  nresp, reads,
\* writes and sends count the replies sent, the SELECTs and INSERTs issued and
\* the sendMail calls made for the request; hit tells whether db.get's row
\* existed.  History: seen holds the ids submits had returned, and mailing the
\* slots waiting for sendMail, when the request came in.
Idle ==
  [pc |-> "idle", req |-> NoReq, resp |-> NoResp, nresp |-> 0, reads |-> 0,
   writes |-> 0, sends |-> 0, params |-> <<>>, err |-> FALSE, lastID |-> 0,
   hit |-> FALSE, mail |-> Null, outcome |-> Null, seen |-> {}, mailing |-> {}]

ReturnedIds == {returned[i].id : i \in 1..Len(returned)}

\* The slot as a request comes in.
Arrived(r) ==
  [Idle EXCEPT !.req = r, !.seen = ReturnedIds,
               !.mailing = {o \in Slots : slot[o].pc = "mail"}]

\* Mutant: the handler goes on after replying and replies again.
RepliedTwice(sl, resp) == [sl EXCEPT !.pc = "done", !.resp = resp, !.nresp = @ + 2]

\* The slot with the reply sent.
Replied(sl, resp) == [sl EXCEPT !.pc = "done", !.resp = resp, !.nresp = @ + 1]

\* A request comes in, one of at most `most`, and takes the first free slot.
Receive(s, most) ==
  /\ slot[s].pc = "idle"
  /\ \A o \in Slots : o < s => slot[o].pc # "idle"
  /\ arrivals < most
  /\ arrivals' = arrivals + 1

\* POST /submit, up to the return of the handler.
Submit(s, r, most) ==
  /\ r.kind = "submit"
  /\ Receive(s, most)
  /\ IF MissingAnswers(r)
       THEN /\ slot' = [slot EXCEPT ![s] =
                          Replied(Arrived(r), JsonError(400, "Missing answers"))]
            /\ UNCHANGED clock
       ELSE /\ clock' = clock + 1
            /\ slot' = [slot EXCEPT ![s] =
                          [Arrived(r) EXCEPT
                             !.pc = "run",
                             !.writes = @ + 1,
                             !.params = SubmitParams(r, toISOString(clock + 1))]]
  /\ UNCHANGED <<env, rows, seqno, returned>>

\* SQLite runs the INSERT: the row is written, or the statement fails.
StmtRun(s) ==
  /\ slot[s].pc = "run"
  /\ \/ /\ rows' = DbInsert(rows, seqno, slot[s].params)
        /\ seqno' = seqno + 1
        /\ slot' = [slot EXCEPT ![s].pc = "ran", ![s].lastID = seqno + 1]
     \/ /\ slot' = [slot EXCEPT ![s].pc = "ran", ![s].err = TRUE]
        /\ UNCHANGED <<rows, seqno>>
  /\ UNCHANGED <<env, clock, returned, arrivals>>

\* The callback of stmt.run replies.
SubmitCallback(s) ==
  /\ slot[s].pc = "ran"
  /\ slot' = [slot EXCEPT ![s] = Replied(@, SubmitReply(@.err, @.lastID))]
  /\ returned' = IF slot[s].err THEN returned
                 ELSE Append(returned, [id |-> slot[s].lastID, req |-> slot[s].req])
  /\ UNCHANGED <<env, rows, seqno, clock, arrivals>>

\* GET /api/responses and GET /api/export.csv, up to the return of the handler.
Query(s, r, most) ==
  /\ r.kind \in {"list", "export"}
  /\ Receive(s, most)
  /\ slot' = [slot EXCEPT ![s] =
                IF requireAdmin(env, r)
                  THEN [Arrived(r) EXCEPT !.pc = "all", !.reads = @ + 1]
                  ELSE Replied(Arrived(r), JsonError(401, "Unauthorized"))]
  /\ UNCHANGED <<env, rows, seqno, clock, returned>>

\* The callback of db.all for GET /api/responses.
ListCallback(s) ==
  /\ slot[s].pc = "all"
  /\ slot[s].req.kind = "list"
  /\ \/ slot' = [slot EXCEPT ![s] =
                   Replied(@, JsonItems(SelectResponses(rows, @.req.q)))]
     \/ slot' = [slot EXCEPT ![s] =
                   Replied([@ EXCEPT !.err = TRUE], JsonError(500, "DB error"))]
  /\ UNCHANGED <<env, rows, seqno, clock, returned, arrivals>>

\* The callback of db.all for GET /api/export.csv.
ExportCallback(s) ==
  /\ slot[s].pc = "all"
  /\ slot[s].req.kind = "export"
  /\ \/ \E rs \in {SelectResponses(rows, Undef)} :
          slot' = [slot EXCEPT ![s] = Replied(@, Text(200, "csv", ExportCsv(rs)))]
     \/ slot' = [slot EXCEPT ![s] =
                   Replied([@ EXCEPT !.err = TRUE], Text(500, "text", "DB error"))]
  /\ UNCHANGED <<env, rows, seqno, clock, returned, arrivals>>

\* POST /api/responses/:id/forward, up to the return of the handler.
Forward(s, r, most) ==
  /\ r.kind = "forward"
  /\ Receive(s, most)
  /\ slot' = [slot EXCEPT ![s] =
                IF ~requireAdmin(env, r)
                  THEN Replied(Arrived(r), JsonError(401, "Unauthorized"))
                ELSE IF ~Truthy(r.to)
                  THEN Replied(Arrived(r), JsonError(400, "Missing to"))
                ELSE IF ~Truthy(transporterOrNull(env))
                  THEN Replied(Arrived(r), JsonError(400, "SMTP not configured"))
                ELSE [Arrived(r) EXCEPT !.pc = "get", !.reads = @ + 1]]
  /\ UNCHANGED <<env, rows, seqno, clock, returned>>

\* The callback of db.get: not found, or the message goes to sendMail.
ForwardCallback(s) ==
  /\ slot[s].pc = "get"
  /\ \E err \in BOOLEAN, hits \in {SelectById(rows, parseInt(slot[s].req.id))} :
       slot' = [slot EXCEPT ![s] =
                  IF NotFound(err, hits)
                    THEN Replied([@ EXCEPT !.err = err, !.hit = hits # {}],
                                 JsonError(404, "Not found"))
                    ELSE [@ EXCEPT
                            !.pc = "mail",
                            !.err = err,
                            !.hit = hits # {},
                            !.sends = @ + 1,
                            !.mail = IF hits = {} THEN Null
                                     ELSE MailMessage(env, CHOOSE h \in hits : TRUE,
                                                      slot[s].req.to)]]
  /\ UNCHANGED <<env, rows, seqno, clock, returned, arrivals>>

\* What sendMail can settle with.
MailOutcomes ==
  { [ok |-> TRUE, messageId |-> <<"<", "m", ">">>],
    [ok |-> FALSE, message |-> "ECONNREFUSED"] }

\* sendMail settles and the handler replies.
SendMailSettled(s, outcome) ==
  /\ slot[s].pc = "mail"
  /\ slot' = [slot EXCEPT ![s] =
                Replied([@ EXCEPT !.outcome = outcome], MailReply(outcome))]
  /\ UNCHANGED <<env, rows, seqno, clock, returned, arrivals>>

\* The client has its reply; the slot takes the next request.
Close(s) ==
  /\ slot[s].pc = "done"
  /\ slot' = [slot EXCEPT ![s] = Idle]
  /\ UNCHANGED <<env, rows, seqno, clock, returned, arrivals>>

\* ----------------------------------------------------------------- inputs
\* A request: the x-admin-token header, the token query parameter, the JSON
\* body's answers, metadata, email, source and to, req.ip, the query
\* parameter q and the path parameter id.  What a request does not carry is
\* undefined.
Req(kind) ==
  [kind |-> kind, hdr |-> Undef, tok |-> Undef, answers |-> Undef,
   metadata |-> Undef, email |-> Undef, source |-> Undef, ip |-> Undef,
   q |-> Undef, id |-> Undef, to |-> Undef]

Secret == Str(<<"s", "3">>)
Tokens == {Undef, Str(<<>>), Secret, Str(changeme)}

\* A mapping with a comma, a capital, a newline and a quote in it; one more.
Answers1 == Obj(<< << <<"Q", COMMA>>, <<"a", NL, DQ>> >> >>)
Answers2 == Obj(<< << <<"b">>, <<"c">> >>, << <<"d">>, <<>> >> >>)

SubmitInputs ==
  { Req("submit"),
    [Req("submit") EXCEPT !.answers = Null, !.metadata = Str(<<"m">>)],
    [Req("submit") EXCEPT !.answers = Str(<<>>)],
    [Req("submit") EXCEPT !.answers = Str(<<"a">>), !.ip = Str(<<"1">>)],
    [Req("submit") EXCEPT !.answers = Arr(<< <<"a">> >>), !.ip = Str(<<"1">>)],
    [Req("submit") EXCEPT !.answers = Answers1, !.ip = Str(<<"1">>)],
    [Req("submit") EXCEPT !.answers = Answers2, !.source = Str(<<>>),
                          !.metadata = Str(<<>>), !.email = Str(<<>>)],
    [Req("submit") EXCEPT !.answers = Answers2, !.source = Str(<<"a", "p", "p">>),
                          !.metadata = Str(<<"A", DQ, "_">>),
                          !.email = Str(<<"e", "@", "x">>), !.ip = Str(<<"1">>)] }

Filters ==
  { Undef, Str(<<>>), Str(<<"a">>), Str(<<"A">>), Str(<<"Q", COMMA>>),
    Str(<<"_">>), Str(<<"%">>), Str(<<"p", "%", "p">>), Str(<<"c", "_", "d">>),
    Str(<<DQ, "a">>), Str(<<"z">>) }

QueryInputs ==
  { [Req(k) EXCEPT !.hdr = h, !.tok = t] : k \in {"list", "export"},
                                            h \in Tokens, t \in Tokens }
  \cup { [Req("list") EXCEPT !.hdr = h, !.q = q] :
           h \in {Secret, Str(changeme)}, q \in Filters }

Ids == {Str(<<"1">>), Str(<<"2">>), Str(<<"9">>), Str(<<"x">>)}

ForwardInputs ==
  { [Req("forward") EXCEPT !.hdr = h, !.tok = t, !.id = Str(<<"1">>),
                           !.to = Str(<<"t", "@", "x">>)] :
      h \in Tokens, t \in Tokens }
  \cup { [Req("forward") EXCEPT !.hdr = h, !.id = i, !.to = to] :
           h \in {Secret, Str(changeme)}, i \in Ids,
           to \in {Undef, Str(<<>>), Str(<<"t", "@", "x">>)} }

\* process.env with the mail transport configured.
Env1 ==
  [ADMIN_TOKEN |-> Secret, SMTP_HOST |-> Str(<<"h">>),
   SMTP_PORT |-> Str(<<"5", "8", "7">>), SMTP_USER |-> Str(<<"u">>),
   SMTP_PASS |-> Str(<<"p">>), SMTP_SECURE |-> Undef, FROM_EMAIL |-> Undef]

Envs ==
  { Env1,
    [Env1 EXCEPT !.ADMIN_TOKEN = Undef, !.SMTP_SECURE = Str(<<"O", "n">>),
                 !.FROM_EMAIL = Str(<<"f">>)],
    [Env1 EXCEPT !.SMTP_HOST = Undef],
    [Env1 EXCEPT !.SMTP_PORT = Str(<<>>)],
    [Env1 EXCEPT !.SMTP_PORT = Str(<<"0">>)],
    [Env1 EXCEPT !.SMTP_USER = Str(<<>>)],
    [Env1 EXCEPT !.SMTP_PASS = Undef] }

\* The inputs of the concurrent specifications: two submits, the second with
\* an empty source, an authorized list and export, and an authorized forward
\* of record 1.
SubmitSample ==
  { [Req("submit") EXCEPT !.answers = Answers1],
    [Req("submit") EXCEPT !.answers = Answers2, !.source = Str(<<>>),
                          !.metadata = Str(<<"A", DQ, "_">>),
                          !.email = Str(<<"e", "@", "x">>), !.ip = Str(<<"1">>)] }

QuerySample ==
  {[Req("list") EXCEPT !.hdr = Secret], [Req("export") EXCEPT !.tok = Secret]}

ForwardSample ==
  { [Req("forward") EXCEPT !.hdr = Secret, !.id = Str(<<"1">>),
                           !.to = Str(<<"t", "@", "x">>)] }

EnvSample == {Env1}

\* ---------------------------------------------------------- specification
\* A record an earlier run of the server left in the database file.
StoredRow ==
  InsertRow(0, SubmitParams([Req("submit") EXCEPT !.answers = Answers1,
                                                  !.metadata = Str(<<"m", NL>>)],
                            toISOString(0)))

\* The server has started, on a database file that is empty or holds records.
InitWith(envs, tables) ==
  /\ env \in envs
  /\ rows \in tables
  /\ seqno = Len(rows)
  /\ clock = 0
  /\ slot = [s \in Slots |-> Idle]
  /\ returned = <<>>
  /\ arrivals = 0

\* One step of a request in one of the slots S.
Step(S, most, submits, queries, forwards) ==
  \E s \in S :
    \/ \E r \in submits : Submit(s, r, most)
    \/ StmtRun(s)
    \/ SubmitCallback(s)
    \/ \E r \in queries : Query(s, r, most)
    \/ ListCallback(s)
    \/ ExportCallback(s)
    \/ \E r \in forwards : Forward(s, r, most)
    \/ ForwardCallback(s)
    \/ \E o \in MailOutcomes : SendMailSettled(s, o)
    \/ Close(s)

\* Requests interleave in the slots.
Init == InitWith(EnvSample, {<<>>})
Next == Step(Slots, MaxRequests, SubmitSample, QuerySample, ForwardSample)
Spec == Init /\ [][Next]_vars

\* One request at a time, over all the inputs.
SeqInit == InitWith(Envs, {<<>>})
SeqNext == Step({1}, MaxSeqRequests, SubmitInputs, QueryInputs, ForwardInputs)
SeqSpec == SeqInit /\ [][SeqNext]_vars

\* ================================================================ claims
\* What the claims speak of, stated apart from the handlers.

AdminKinds == {"list", "export", "forward"}

\* The request's operation was let through the guard.
Performed(sl) == sl.pc # "idle" /\ sl.resp.status # 401

\* The reply of a request the guard turned away.
Unauthorized(sl) ==
  /\ sl.pc = "done"
  /\ sl.resp = JsonError(401, "Unauthorized")
  /\ sl.reads = 0 /\ sl.writes = 0 /\ sl.sends = 0

\* The token the guard reads: the header when it is there and not empty,
\* else the query parameter.
TokenRead(r) == IF r.hdr.t = "str" /\ r.hdr.s # <<>> THEN r.hdr ELSE r.tok

\* C1 as stated: an admin operation is performed exactly when the header or
\* the query parameter carries a token equal to the configured secret, and
\* is otherwise answered 401 with no storage read, no mail and no record
\* data.
C1_EitherTokenAdmits ==
  \A s \in Slots :
    slot[s].req.kind \in AdminKinds =>
      IF slot[s].req.hdr = ADMIN_TOKEN(env) \/ slot[s].req.tok = ADMIN_TOKEN(env)
        THEN Performed(slot[s])
        ELSE Unauthorized(slot[s])

\* C1 amended: an admin operation is performed exactly when the token the
\* guard reads (the header when present and not empty, else the query
\* parameter) equals the configured secret; otherwise the reply is 401, no
\* storage read is issued, no mail is sent and the reply holds no record
\* data.
C1_GuardTokenAdmits ==
  \A s \in Slots :
    slot[s].req.kind \in AdminKinds =>
      IF TokenRead(slot[s].req) = ADMIN_TOKEN(env)
        THEN Performed(slot[s])
        ELSE Unauthorized(slot[s])

\* A list let through on the query parameter alone has replied with a stored
\* record.
C1_Witness ==
  \E s \in Slots :
    /\ slot[s].req.kind = "list"
    /\ slot[s].req.hdr = Undef
    /\ slot[s].req.tok = ADMIN_TOKEN(env)
    /\ slot[s].pc = "done"
    /\ slot[s].resp.status = 200
    /\ slot[s].resp.items # <<>>

\* C2 as stated: a submit whose answers are absent, null or not a mapping is
\* answered 400 'Missing answers' and issues no insert.
C2_NonMappingRejected ==
  \A s \in Slots :
    (slot[s].req.kind = "submit" /\ slot[s].req.answers.t # "obj") =>
      /\ slot[s].pc = "done"
      /\ slot[s].resp = JsonError(400, "Missing answers")
      /\ slot[s].writes = 0

\* A submit with no answers was turned away while a record is stored.
C2_Witness ==
  \E s \in Slots :
    /\ slot[s].req.kind = "submit"
    /\ slot[s].req.answers = Null
    /\ slot[s].pc = "done"
    /\ rows # <<>>

\* A payload field as the claim reads it: its value, or the default when the
\* payload leaves it out.
Given(v, default) == IF v = Undef THEN default ELSE v.s

\* A list's item holds the submitted values: source 'web' and the others
\* empty when left out, the answers once the item's answers_json is parsed.
ItemEqualsPayload(item, r) ==
  /\ item.source = Given(r.source, <<"w", "e", "b">>)
  /\ item.metadata = Given(r.metadata, <<>>)
  /\ item.email = Given(r.email, <<>>)
  /\ JSONparse[item.answers_json] = r.answers

\* As ItemEqualsPayload, with an empty source stored as 'web' too.
ItemHoldsPayload(item, r) ==
  /\ item.source = (IF Given(r.source, <<>>) = <<>> THEN <<"w", "e", "b">>
                    ELSE r.source.s)
  /\ item.metadata = Given(r.metadata, <<>>)
  /\ item.email = Given(r.email, <<>>)
  /\ JSONparse[item.answers_json] = r.answers

\* An unfiltered list that succeeded holds, for every submit that had replied
\* when the list came in, an item with that id that satisfies Holds.
ListsHoldReturned(Holds(_, _)) ==
  \A s \in Slots :
    (slot[s].req.kind = "list" /\ slot[s].pc = "done" /\ slot[s].resp.status = 200
       /\ ~Truthy(slot[s].req.q)) =>
      \A k \in 1..Len(returned) :
        returned[k].id \in slot[s].seen =>
          \E i \in 1..Len(slot[s].resp.items) :
            /\ slot[s].resp.items[i].id = returned[k].id
            /\ Holds(slot[s].resp.items[i], returned[k].req)

\* C3 as stated: in any interleaving each successful submit returns an id
\* greater than every id a submit returned before it, no id is returned
\* twice, and a later authorized list holds a record with that id and the
\* submitted source, metadata, email and answers (source 'web', the others
\* empty, when left out).
C3_IdsGrowInReplyOrder ==
  /\ \A i, j \in 1..Len(returned) : i < j => returned[i].id < returned[j].id
  /\ ListsHoldReturned(ItemEqualsPayload)

\* C3 amended: each successful submit returns an id greater than every id
\* returned by a submit that had replied before this one came in (submits in
\* flight together may reply in either order), no id is returned twice, and
\* a later authorized unfiltered list that succeeds holds a record with that
\* id and the submitted metadata, email and answers (as answers_json) and
\* the submitted source, 'web' when the source is left out or empty.
C3_IdsGrowAcrossRequests ==
  /\ \A i, j \in 1..Len(returned) : i # j => returned[i].id # returned[j].id
  /\ \A s \in Slots :
       (slot[s].req.kind = "submit" /\ slot[s].pc = "done"
          /\ slot[s].resp.status = 200) =>
         \A id \in slot[s].seen : id < slot[s].resp.id
  /\ ListsHoldReturned(ItemHoldsPayload)

\* Two submits have replied, the second after the first had, and a list that
\* came in after both has replied with its items.
C3_Witness ==
  /\ Len(returned) = 2
  /\ \E s \in Slots :
       /\ slot[s].req.kind = "submit" /\ slot[s].pc = "done"
       /\ slot[s].resp.status = 200 /\ slot[s].seen # {}
  /\ \E s \in Slots :
       /\ slot[s].req.kind = "list" /\ slot[s].pc = "done"
       /\ slot[s].resp.status = 200 /\ ~Truthy(slot[s].req.q)
       /\ Cardinality(slot[s].seen) = 2

\* The ids of a table's rows.
IdsOf(table) == {table[i].id : i \in 1..Len(table)}

\* C4: storage is append-only.  Every step keeps every stored record as it
\* is; only the INSERT of a submit changes the table, and it adds exactly
\* one record, under an id no record ever had.
C4_AppendOnly ==
  [][ /\ Len(rows') >= Len(rows)
      /\ \A i \in 1..Len(rows) : rows'[i] = rows[i]
      /\ rows' # rows =>
           /\ Len(rows') = Len(rows) + 1
           /\ rows'[Len(rows')].id \notin IdsOf(rows)
           /\ \A i \in 1..Len(rows) : rows[i].id < rows'[Len(rows')].id
           /\ \E s \in Slots :
                /\ slot[s].req.kind = "submit"
                /\ slot[s].pc = "run" /\ slot'[s].pc = "ran"
                /\ ~slot'[s].err
                /\ slot'[s].lastID = rows'[Len(rows')].id ]_vars

\* With a record stored, an insert has failed and an export has gone by.
C4_Witness ==
  /\ Len(rows) = 1
  /\ clock > Len(rows)
  /\ \E s \in Slots : slot[s].req.kind = "export"
                      /\ slot[s].pc = "done" /\ slot[s].reads = 1

\* q occurs in text, character for character.
Contains(text, q) ==
  \E i \in 0..(Len(text) - Len(q)) : SubSeq(text, i + 1, i + Len(q)) = q

\* Two characters are the same letter, whatever their ASCII case.
SameLetter(a, b) ==
  a = b \/ \E i \in 1..26 : {a, b} = {UpperChars[i], LowerChars[i]}

RECURSIVE SplitOn(_, _, _, _)
\* The pieces of q between the occurrences of the character c.
SplitOn(q, c, piece, pieces) ==
  IF q = <<>> THEN Append(pieces, piece)
  ELSE IF Head(q) = c THEN SplitOn(Tail(q), c, <<>>, Append(pieces, piece))
  ELSE SplitOn(Tail(q), c, Append(piece, Head(q)), pieces)

\* The piece lies in text at position pos, _ standing for any one character
\* and letters compared without regard to case.
PieceAt(text, pos, piece) ==
  /\ pos + Len(piece) - 1 <= Len(text)
  /\ \A k \in 1..Len(piece) :
       piece[k] = "_" \/ SameLetter(piece[k], text[pos + k - 1])

RECURSIVE PiecesFrom(_, _, _)
\* The pieces lie in text one after the other, from position `from` on.
PiecesFrom(text, from, pieces) ==
  IF pieces = <<>> THEN TRUE
  ELSE \E pos \in from..(Len(text) + 1) :
         /\ PieceAt(text, pos, Head(pieces))
         /\ PiecesFrom(text, pos + Len(Head(pieces)), Tail(pieces))

\* text holds q as a LIKE pattern: the pieces of q between its % signs lie in
\* text in that order.
HoldsPattern(text, q) == PiecesFrom(text, 1, SplitOn(q, "%", <<>>, <<>>))

\* A list that succeeded holds, newest id first, exactly the stored records
\* that satisfy Has(text, q) on their answers_json or their metadata, and
\* every stored record when the filter is empty or absent.
ListHoldsExactly(Has(_, _)) ==
  \A s \in Slots :
    (slot[s].req.kind = "list" /\ slot[s].pc = "done"
       /\ slot[s].resp.status = 200) =>
      LET items == slot[s].resp.items
          q == slot[s].req.q
          filtered == q.t = "str" /\ q.s # <<>>
      IN /\ \A i, j \in 1..Len(items) : i < j => items[i].id > items[j].id
         /\ \A i \in 1..Len(items) : items[i] \in RowSet(rows)
         /\ \A r \in RowSet(rows) :
              (\E i \in 1..Len(items) : items[i] = r) <=>
                (filtered => Has(r.answers_json, q.s) \/ Has(r.metadata, q.s))

\* C5 as stated: list(q) returns exactly the records whose metadata or
\* serialized answers contain q as a literal, case-sensitive substring,
\* newest id first, and every record when the filter is empty or absent.
C5_LiteralSubstring == ListHoldsExactly(Contains)

\* C5 amended: list(q) returns exactly the records whose metadata or
\* serialized answers match q the way SQLite's LIKE '%q%' does: letters are
\* compared without regard to ASCII case, a % in q stands for any run of
\* characters and a _ for any one character (so every record containing q
\* literally is returned, and others may be); newest id first; every record
\* when the filter is empty or absent.
C5_LikePattern ==
  /\ ListHoldsExactly(HoldsPattern)
  /\ \A s \in Slots :
       (slot[s].req.kind = "list" /\ slot[s].pc = "done"
          /\ slot[s].resp.status = 200 /\ Truthy(slot[s].req.q)) =>
         \A r \in RowSet(rows) :
           (Contains(r.answers_json, slot[s].req.q.s)
              \/ Contains(r.metadata, slot[s].req.q.s)) =>
             \E i \in 1..Len(slot[s].resp.items) : slot[s].resp.items[i] = r

\* A filtered list has replied with some but not all of the stored records,
\* one of them a record that does not contain the filter literally.
C5_Witness ==
  \E s \in Slots :
    /\ slot[s].req.kind = "list" /\ slot[s].pc = "done"
    /\ slot[s].resp.status = 200 /\ Truthy(slot[s].req.q)
    /\ Len(slot[s].resp.items) < Len(rows)
    /\ \E i \in 1..Len(slot[s].resp.items) :
         /\ ~Contains(slot[s].resp.items[i].answers_json, slot[s].req.q.s)
         /\ ~Contains(slot[s].resp.items[i].metadata, slot[s].req.q.s)

\* Reading a CSV document by the standard quoting rules (RFC 4180): fields
\* are separated by commas and records by line breaks; a field in double
\* quotes may hold commas, line breaks and, doubled, double quotes.  A comma
\* or line break separates when an even number of double quotes precedes it.
Separators(text, c) ==
  {i \in 1..Len(text) :
     /\ text[i] = c
     /\ Cardinality({j \in 1..(i - 1) : text[j] = DQ}) % 2 = 0}

RECURSIVE CutAt(_, _, _)
\* The pieces of text between the positions `at`, from position `from` on.
CutAt(text, from, at) ==
  IF at = {} THEN <<SubSeq(text, from, Len(text))>>
  ELSE LET i == CHOOSE x \in at : \A y \in at : x <= y
       IN <<SubSeq(text, from, i - 1)>> \o CutAt(text, i + 1, at \ {i})

RECURSIVE Undouble(_)
\* The inside of a quoted field with each doubled double quote made one;
\* <<"malformed">> in front when a double quote stands alone.
Undouble(f) ==
  IF f = <<>> THEN <<>>
  ELSE IF Head(f) # DQ THEN <<Head(f)>> \o Undouble(Tail(f))
  ELSE IF Len(f) >= 2 /\ f[2] = DQ THEN <<DQ>> \o Undouble(Tail(Tail(f)))
  ELSE <<"malformed">>

\* A field's text is well formed: unquoted without a double quote, or quoted
\* with every inner double quote doubled.
FieldOk(f) ==
  IF f # <<>> /\ Head(f) = DQ
    THEN /\ Len(f) >= 2 /\ f[Len(f)] = DQ
         /\ "malformed" \notin
              {Undouble(SubSeq(f, 2, Len(f) - 1))[k] :
                 k \in 1..Len(Undouble(SubSeq(f, 2, Len(f) - 1)))}
    ELSE \A k \in 1..Len(f) : f[k] # DQ

\* A well-formed field's value.
FieldValue(f) ==
  IF f # <<>> /\ Head(f) = DQ THEN Undouble(SubSeq(f, 2, Len(f) - 1)) ELSE f

\* The document's records, each the texts of its fields.
CsvTexts(text) ==
  LET lines == CutAt(text, 1, Separators(text, NL))
  IN [i \in 1..Len(lines) |-> CutAt(lines[i], 1, Separators(lines[i], COMMA))]

\* [ok |-> the document is well formed, records |-> its records' values].
CsvRead(text) ==
  LET texts == CsvTexts(text)
      ok == \A i \in 1..Len(texts) : \A k \in 1..Len(texts[i]) : FieldOk(texts[i][k])
  IN [ok |-> ok,
      records |-> IF ok
                    THEN [i \in 1..Len(texts) |->
                            [k \in 1..Len(texts[i]) |-> FieldValue(texts[i][k])]]
                    ELSE <<>>]

\* The fields a stored record should come back as.
FieldsOf(r) ==
  <<Digits(r.id), r.created_at, r.source, r.metadata, r.email, r.ip, r.answers_json>>

\* Every stored record's answers are a mapping, as a valid submit stores them.
MappingsStored == \A i \in 1..Len(rows) : JSONparse[rows[i].answers_json].t = "obj"

\* C6 as stated: an export of stored records (their answers mappings), read
\* back by the standard CSV quoting rules, is the seven-field header and then
\* one seven-field record per stored record, newest id first, whose fields
\* equal the stored id, created_at, source, metadata, email, ip and answers,
\* also when a field holds a comma, a double quote or a newline.
C6_ExportRoundTrip ==
  \A s \in Slots :
    (slot[s].req.kind = "export" /\ slot[s].pc = "done"
       /\ slot[s].resp.status = 200 /\ MappingsStored) =>
      LET doc == CsvRead(slot[s].resp.text)
          stored == OrderByIdDesc(RowSet(rows))
      IN /\ doc.ok
         /\ doc.records = <<CsvHeader>> \o [i \in 1..Len(stored) |-> FieldsOf(stored[i])]

\* An export of two stored records has replied.
C6_Witness ==
  \E s \in Slots :
    /\ slot[s].req.kind = "export" /\ slot[s].pc = "done"
    /\ slot[s].resp.status = 200
    /\ Len(rows) = 2 /\ MappingsStored

\* An environment variable is missing: not set, or set to nothing.
Missing(e, key) == e[key] = Undef \/ e[key] = Str(<<>>)

\* The mail capability is not configured: host, port, user or password is
\* missing.
MailNotConfigured(e) ==
  \/ Missing(e, "SMTP_HOST") \/ Missing(e, "SMTP_PORT")
  \/ Missing(e, "SMTP_USER") \/ Missing(e, "SMTP_PASS")

\* A forward request that is authorized and names a recipient.
ForwardAsked(sl) ==
  /\ sl.req.kind = "forward"
  /\ TokenRead(sl.req) = ADMIN_TOKEN(env)
  /\ sl.req.to.t = "str" /\ sl.req.to.s # <<>>

\* C7: while the mail capability is not configured, every authorized forward
\* with a recipient is answered 400 'SMTP not configured', whether or not
\* the id exists, and sendMail is not called.
C7_UnconfiguredMailRefused ==
  \A s \in Slots :
    (ForwardAsked(slot[s]) /\ MailNotConfigured(env)) =>
      /\ slot[s].pc = "done"
      /\ slot[s].resp = JsonError(400, "SMTP not configured")
      /\ slot[s].sends = 0

\* With the password missing, a forward of a stored record was refused.
C7_Witness ==
  \E s \in Slots :
    /\ ForwardAsked(slot[s])
    /\ Missing(env, "SMTP_PASS")
    /\ slot[s].pc = "done"
    /\ slot[s].resp.status = 400
    /\ \E i \in 1..Len(rows) : Digits(rows[i].id) = slot[s].req.id.s

\* C8 as stated: an authorized forward (with a recipient and the mail
\* capability configured) whose id matches no stored record is answered 404
\* and calls no sendMail; 404 is the answer only when the record does not
\* exist: a storage failure while fetching is answered 500.
C8_NotFoundOnlyWhenAbsent ==
  \A s \in Slots :
    (ForwardAsked(slot[s]) /\ slot[s].pc = "done"
       /\ slot[s].resp # JsonError(400, "SMTP not configured")) =>
      /\ ~slot[s].hit => (slot[s].resp.status = 404 /\ slot[s].sends = 0)
      /\ slot[s].resp.status = 404 => ~slot[s].hit
      /\ slot[s].err => slot[s].resp.status = 500

\* A forward of an id no record has was answered 404 while records are
\* stored.
C8_Witness ==
  \E s \in Slots :
    /\ ForwardAsked(slot[s]) /\ slot[s].pc = "done"
    /\ slot[s].resp.status = 404 /\ ~slot[s].hit /\ ~slot[s].err
    /\ rows # <<>>

\* C9: for a forward request sendMail is called at most once, and only once
\* the request was authorized, named a recipient, found the mail capability
\* configured and found the record; when the send succeeds the reply is
\* {ok: true, messageId} with the capability's identifier, when it fails the
\* reply is 500 with the failure's message, and the send is not tried again.
C9_SendOnceAfterChecks ==
  \A s \in Slots :
    /\ slot[s].sends <= 1
    /\ slot[s].sends = 1 =>
         /\ ForwardAsked(slot[s])
         /\ ~MailNotConfigured(env)
         /\ slot[s].hit /\ ~slot[s].err
         /\ slot[s].pc \in {"mail", "done"}
    /\ (slot[s].sends = 1 /\ slot[s].pc = "done") =>
         /\ slot[s].outcome \in MailOutcomes
         /\ slot[s].nresp = 1
         /\ IF slot[s].outcome.ok
              THEN slot[s].resp =
                     [status |-> 200, type |-> "json", ok |-> TRUE,
                      messageId |-> slot[s].outcome.messageId]
              ELSE slot[s].resp =
                     [status |-> 500, type |-> "json", ok |-> FALSE,
                      error |-> slot[s].outcome.message]
    /\ slot[s].pc = "mail" => (slot[s].sends = 1 /\ slot[s].nresp = 0)

\* A send failed and the request was answered 500 after its one send.
C9_Witness ==
  \E s \in Slots :
    /\ slot[s].pc = "done" /\ slot[s].sends = 1
    /\ slot[s].outcome # Null /\ ~slot[s].outcome.ok
    /\ slot[s].resp.status = 500

\* SQLite runs every statement handed to it and the event loop runs every
\* callback that is ready; when sendMail settles, and when requests come in,
\* is up to the world.
Fairness ==
  \A s \in Slots :
    /\ WF_vars(StmtRun(s))
    /\ WF_vars(SubmitCallback(s))
    /\ WF_vars(ListCallback(s))
    /\ WF_vars(ExportCallback(s))
    /\ WF_vars(ForwardCallback(s))

\* Requests interleave, under fairness, over a table that holds a record when
\* the server starts.
FairInit == InitWith(EnvSample, {<<StoredRow>>})
FairNext == Step(Slots, MaxFairRequests, SubmitSample, QuerySample, ForwardSample)
FairSpec == FairInit /\ [][FairNext]_vars /\ Fairness

\* The request waits for SQLite or for its callback.
Pending(sl) == sl.pc \in {"run", "ran", "all", "get"}

\* The slot holds a request that is not answered yet, or it is the slot the
\* next request takes.
Serving(b) ==
  \/ slot[b].pc \notin {"idle", "done"}
  \/ slot[b].pc = "idle" /\ \A o \in Slots : o < b => slot[o].pc # "idle"

\* C10: requests do not block each other.  While a forward waits for
\* sendMail to settle (which it may never do), every other slot can take its
\* next step: receive a request, or carry the one it has further.  Every
\* request is answered at most once, and every request that is not waiting
\* for sendMail is in the end answered exactly once (or waits for its own
\* sendMail).
C10_NoBlocking ==
  /\ [](\A a, b \in Slots :
          (a # b /\ slot[a].pc = "mail" /\ Serving(b)) =>
            ENABLED Step({b}, MaxFairRequests + 1,
                         SubmitSample, QuerySample, ForwardSample))
  /\ [](\A s \in Slots :
          /\ slot[s].nresp <= 1
          /\ slot[s].pc = "done" <=> slot[s].nresp = 1)
  /\ \A s \in Slots :
       Pending(slot[s]) ~>
         ((slot[s].pc = "done" /\ slot[s].nresp = 1) \/ slot[s].pc = "mail")

\* A submit that came in while another slot's forward was waiting for
\* sendMail has been answered, and that forward is still waiting.
C10_Witness ==
  \E a, b \in Slots :
    /\ a # b
    /\ slot[a].pc = "mail"
    /\ a \in slot[b].mailing
    /\ slot[b].req.kind = "submit"
    /\ slot[b].pc = "done" /\ slot[b].nresp = 1
    /\ slot[b].resp.status = 200

====
